---- MODULE Spec2Model ----
(***************************************************************************)
(* Model of the Slack bot's turn pipeline: MessageProcessor.process, the   *)
(* PermissionGate rendezvous, the claudeQuery stream wrapper and the       *)
(* SQLite repositories for sessions and working directories.               *)
(*                                                                         *)
(* JavaScript strings are tuples of one-character strings, so that         *)
(* startsWith, trim and template concatenation are computed, not assumed.  *)
(* undefined and null are the one-element tuples Undefined and Null, whose *)
(* element is no character, so they differ from every string.              *)
(***************************************************************************)
EXTENDS Integers, Sequences, FiniteSets, TLC

\* ------------------------------------------------------------------ bounds
\* number of upstream SDK messages delivered, over all streams together
MaxMsgs == 2
\* number of direct PermissionGate.request calls (gate used on its own)
MaxRequests == 2
\* number of content parts in one assistant message
MaxParts == 1
\* largest value of the wall clock Date.now()
MaxClock == 1

\* process() calls: two, so that one can run while the other is suspended
Turns == {1, 2}

\* ------------------------------------------------------------ JS values
Undefined == <<"<undefined>">>
Null == <<"<null>">>

U1 == <<"U", "1">>
U2 == <<"U", "2">>
D1 == <<"D", "1">>
C2 == <<"C", "2">>
Thread1 == <<"t", "1">>
DirP == <<"/", "p">>
S1 == <<"S", "1">>
S2 == <<"S", "2">>

\* session ids the agent runtime can report
Tokens == {S1, S2}

\* inbound Slack events (IncomingMessage: userId, channelId, threadTs)
IncomingMessages ==
  [userId : {U1}, channelId : {D1, C2}, threadTs : {Undefined, Thread1}]

\* String.prototype.startsWith
startsWith(s, prefix) ==
  /\ Len(s) >= Len(prefix)
  /\ SubSeq(s, 1, Len(prefix)) = prefix

isWhitespace(c) == c \in {" ", "\t", "\n"}

RECURSIVE trimStart(_)
trimStart(s) ==
  IF s = <<>> THEN <<>>
  ELSE IF isWhitespace(Head(s)) THEN trimStart(Tail(s)) ELSE s

RECURSIVE trimEnd(_)
trimEnd(s) ==
  IF s = <<>> THEN <<>>
  ELSE IF isWhitespace(s[Len(s)]) THEN trimEnd(SubSeq(s, 1, Len(s) - 1)) ELSE s

\* String.prototype.trim
trim(s) == trimEnd(trimStart(s))

\* JS truthiness of a string | undefined | null value
truthy(s) == s # Undefined /\ s # Null /\ s # <<>>

\* ------------------------------------------------------- PermissionGate
SAFE_TOOLS ==
  << <<"R", "e", "a", "d">>,
     <<"G", "l", "o", "b">>,
     <<"G", "r", "e", "p">>,
     <<"L", "S">>,
     <<"W", "e", "b", "S", "e", "a", "r", "c", "h">>,
     <<"W", "e", "b", "F", "e", "t", "c", "h">>,
     <<"T", "o", "d", "o", "W", "r", "i", "t", "e">>,
     <<"T", "o", "d", "o", "R", "e", "a", "d">> >>

McpPrefix == <<"m", "c", "p", "_", "_">>

isSafeExactOnly(tool) ==
  \E i \in 1..Len(SAFE_TOOLS) : tool = SAFE_TOOLS[i]

isSafeNever(tool) == FALSE

\* SAFE_TOOLS.some((safe) => tool === safe || tool.startsWith('mcp__'))
isSafe(tool) ==
  \E i \in 1..Len(SAFE_TOOLS) :
    tool = SAFE_TOOLS[i] \/ startsWith(tool, McpPrefix)

\* tool names the agent runtime asks permission for
ToolNames ==
  { SAFE_TOOLS[1], SAFE_TOOLS[8],
    <<"B", "a", "s", "h">>,
    <<"m", "c", "p", "_", "_", "g", "h">>,
    <<"m", "c", "p", "_", "g", "h">>,
    <<"x", "m", "c", "p", "_", "_">> }

\* -------------------------------------------------- repositories (SQLite)
Dash == <<"-">>
Direct == <<"d", "i", "r", "e", "c", "t">>

sessionKeyNoThread(userId, channelId, threadTs) ==
  userId \o Dash \o channelId

\* `${userId}-${channelId}-${threadTs ?? 'direct'}`
sessionKey(userId, channelId, threadTs) ==
  userId \o Dash \o channelId \o Dash \o
    (IF threadTs = Undefined \/ threadTs = Null THEN Direct ELSE threadTs)

\* channelId.startsWith('D')
isDM(channelId) == startsWith(channelId, <<"D">>)

\* SELECT * FROM working_directories WHERE dir_key = ?  (zero or one row)
findDir(dirs, dirKey) == {r \in dirs : r.dir_key = dirKey}

findForMessageChannelFirst(dirs, channelId, threadTs) ==
  IF findDir(dirs, channelId) # {} THEN findDir(dirs, channelId)
  ELSE IF truthy(threadTs) THEN findDir(dirs, channelId \o Dash \o threadTs)
  ELSE {}

\* WorkingDirectoryRepository.findForMessage: thread override, then channel
findForMessage(dirs, channelId, threadTs) ==
  IF truthy(threadTs) /\ findDir(dirs, channelId \o Dash \o threadTs) # {}
  THEN findDir(dirs, channelId \o Dash \o threadTs)
  ELSE findDir(dirs, channelId)

\* WorkingDirectoryRepository.set: INSERT ... ON CONFLICT(dir_key) DO UPDATE
\* SET directory, set_at
set(dirs, dir) ==
  IF \E r \in dirs : r.dir_key = dir.dirKey
  THEN {IF r.dir_key = dir.dirKey
        THEN [r EXCEPT !.directory = dir.directory] ELSE r : r \in dirs}
  ELSE dirs \cup {[dir_key |-> dir.dirKey, channel_id |-> dir.channelId,
                    thread_ts |-> dir.threadTs, directory |-> dir.directory]}

\* rowToSession: the row as a Session object
rowToSession(row) ==
  [sessionKey |-> row.session_key,
   claudeSessionId |-> row.claude_session_id,
   userId |-> row.user_id,
   channelId |-> row.channel_id,
   threadTs |-> row.thread_ts,
   workingDirectory |-> row.working_directory,
   isActive |-> (row.is_active = 1),
   lastActivityAt |-> row.last_activity_at,
   createdAt |-> row.created_at]

findAnyKey(rows, key) ==
  IF rows = {} THEN {} ELSE {rowToSession(CHOOSE r \in rows : TRUE)}

\* SessionRepository.find: a set holding the Session, empty for null
find(rows, key) == {rowToSession(r) : r \in {q \in rows : q.session_key = key}}

\* existing?.claudeSessionId ?? dflt
claudeSessionIdOf(existing, dflt) ==
  IF existing = {} THEN dflt
  ELSE LET id == (CHOOSE s \in existing : TRUE).claudeSessionId
       IN IF id = Null \/ id = Undefined THEN dflt ELSE id

upsertReplace(rows, session, clock) ==
  {r \in rows : r.session_key # session.sessionKey} \cup
    {[session_key |-> session.sessionKey,
      claude_session_id |-> session.claudeSessionId,
      user_id |-> session.userId,
      channel_id |-> session.channelId,
      thread_ts |-> session.threadTs,
      working_directory |-> session.workingDirectory,
      is_active |-> IF session.isActive THEN 1 ELSE 0,
      last_activity_at |-> session.lastActivityAt,
      created_at |-> clock]}

\* SessionRepository.upsert: INSERT ... ON CONFLICT(session_key) DO UPDATE
upsert(rows, session, clock) ==
  IF \E r \in rows : r.session_key = session.sessionKey
  THEN {IF r.session_key = session.sessionKey
        THEN [r EXCEPT !.claude_session_id = session.claudeSessionId,
                       !.working_directory = session.workingDirectory,
                       !.is_active = IF session.isActive THEN 1 ELSE 0,
                       !.last_activity_at = session.lastActivityAt]
        ELSE r : r \in rows}
  ELSE rows \cup
       {[session_key |-> session.sessionKey,
         claude_session_id |-> session.claudeSessionId,
         user_id |-> session.userId,
         channel_id |-> session.channelId,
         thread_ts |-> session.threadTs,
         working_directory |-> session.workingDirectory,
         is_active |-> IF session.isActive THEN 1 ELSE 0,
         last_activity_at |-> session.lastActivityAt,
         created_at |-> clock]}

updateClaudeSessionIdOrInsert(rows, key, claudeSessionId, clock) ==
  IF \E r \in rows : r.session_key = key
  THEN {IF r.session_key = key
        THEN [r EXCEPT !.claude_session_id = claudeSessionId,
                       !.last_activity_at = clock]
        ELSE r : r \in rows}
  ELSE rows \cup
       {[session_key |-> key, claude_session_id |-> claudeSessionId,
         user_id |-> Null, channel_id |-> Null, thread_ts |-> Null,
         working_directory |-> Null, is_active |-> 1,
         last_activity_at |-> clock, created_at |-> clock]}

updateClaudeSessionIdNoop(rows, key, claudeSessionId, clock) == rows

\* SessionRepository.updateClaudeSessionId: UPDATE ... WHERE session_key = ?
updateClaudeSessionId(rows, key, claudeSessionId, clock) ==
  {IF r.session_key = key
   THEN [r EXCEPT !.claude_session_id = claudeSessionId,
                  !.last_activity_at = clock]
   ELSE r : r \in rows}

\* the upstream token stored for a key, Null when there is no row
storedToken(rows, key) ==
  IF \E r \in rows : r.session_key = key
  THEN (CHOOSE r \in rows : r.session_key = key).claude_session_id
  ELSE Null

\* ------------------------------------------------------------ the state
VARIABLES
  sessions,        \* rows of the sessions table
  workingDirs,     \* rows of the working_directories table
  now,             \* Date.now()
  pc,              \* pc[t]: where process() call t is suspended
  event,           \* event[t]: the IncomingMessage of call t
  key,             \* key[t]: the session key of call t
  existing,        \* existing[t]: result of sessionRepo.find at line 50
  startToken,      \* startToken[t]: token stored for key[t] when t started
  workingDirectory,\* workingDirectory[t]: resolved directory or Undefined
  streamReq,       \* streamReq[t]: options passed to claudeQuery ({} before)
  npulled,         \* npulled[t]: upstream messages the SDK delivered to t
  consumed,        \* consumed[t]: messages the loop body of t handled
  partIdx,         \* partIdx[t]: index of the content part being relayed
  aborted,         \* aborted[t]: abortController.signal.aborted
  caught,          \* caught[t]: the error the catch block of t received
  raised,          \* raised[t]: the error that escaped process()
  reports,         \* reports[t]: Slack calls of t that took effect, in order
  persisted,       \* persisted[t]: updateClaudeSessionId calls made by t
  perm,            \* perm[t]: the request() call t is waiting on, 0 if none
  requests,        \* requests[r]: every PermissionGate.request call made
  nextId,          \* next approval id (crypto.randomUUID is fresh)
  pending,         \* PermissionGate.pending: ids with a registered handler
  promise,         \* promise[id]: state of the promise awaited by request
  settlements,     \* settlements[id]: (source, value) of each handler call
  unhandled        \* number of unhandled promise rejections inside the gate

storeVars == <<sessions, workingDirs, now>>
turnVars == <<pc, event, key, existing, startToken, workingDirectory,
              streamReq, npulled, consumed, partIdx, aborted, caught, raised,
              reports, persisted, perm>>
gateVars == <<requests, nextId, pending, promise, settlements, unhandled>>
vars == <<storeVars, turnVars, gateVars>>

NoError == "none"
NoMessage == [userId |-> Undefined, channelId |-> Undefined,
              threadTs |-> Undefined]

\* a Slack call that took effect
Report(op, kind, text, cost) ==
  [op |-> op, kind |-> kind, text |-> text, cost |-> cost]

\* ClaudeMessage shapes (one record shape, unused fields defaulted)
InitMsg(tok) ==
  [type |-> "system", subtype |-> "init", session_id |-> tok,
   content |-> <<>>, has_cost |-> FALSE, total_cost_usd |-> 0]
AssistantMsg(parts) ==
  [type |-> "assistant", subtype |-> "", session_id |-> Undefined,
   content |-> parts, has_cost |-> FALSE, total_cost_usd |-> 0]
ResultMsg(hasCost, cost) ==
  [type |-> "result", subtype |-> "success", session_id |-> Undefined,
   content |-> <<>>, has_cost |-> hasCost, total_cost_usd |-> cost]
OtherMsg ==
  [type |-> "user", subtype |-> "", session_id |-> Undefined,
   content |-> <<>>, has_cost |-> FALSE, total_cost_usd |-> 0]

\* a system message that is not the init message (the SDK also emits
\* e.g. status messages; query.ts passes on all but permission requests)
StatusMsg ==
  [type |-> "system", subtype |-> "status", session_id |-> S1,
   content |-> <<>>, has_cost |-> FALSE, total_cost_usd |-> 0]

TextPart(text) == [type |-> "text", text |-> text, name |-> <<>>]
ToolUsePart(name) == [type |-> "tool_use", text |-> <<>>, name |-> name]

Parts ==
  {TextPart(<<"h", "i">>), TextPart(<<" ">>), TextPart(<<>>),
   ToolUsePart(<<"B", "a", "s", "h">>)}

RECURSIVE SeqsUpTo(_, _)
SeqsUpTo(S, n) ==
  IF n = 0 THEN {<<>>}
  ELSE SeqsUpTo(S, n - 1) \cup
       {Append(q, x) : q \in {r \in SeqsUpTo(S, n - 1) : Len(r) = n - 1},
                       x \in S}

\* costs in 1/10000 USD; a result may also carry no cost at all
Costs == {0, 5}

Messages ==
  {InitMsg(tok) : tok \in Tokens}
    \cup {AssistantMsg(parts) : parts \in SeqsUpTo(Parts, MaxParts)}
    \cup {ResultMsg(TRUE, c) : c \in Costs}
    \cup {ResultMsg(FALSE, 0), OtherMsg}

Init ==
  /\ sessions = {}
  /\ workingDirs \in
       {{}, {[dir_key |-> C2, channel_id |-> C2, thread_ts |-> Null,
              directory |-> DirP]}}
  /\ now = 0
  /\ pc = [t \in Turns |-> "idle"]
  /\ event = [t \in Turns |-> NoMessage]
  /\ key = [t \in Turns |-> <<>>]
  /\ existing = [t \in Turns |-> {}]
  /\ startToken = [t \in Turns |-> Null]
  /\ workingDirectory = [t \in Turns |-> Undefined]
  /\ streamReq = [t \in Turns |-> {}]
  /\ npulled = [t \in Turns |-> 0]
  /\ consumed = [t \in Turns |-> <<>>]
  /\ partIdx = [t \in Turns |-> 0]
  /\ aborted = [t \in Turns |-> FALSE]
  /\ caught = [t \in Turns |-> NoError]
  /\ raised = [t \in Turns |-> NoError]
  /\ reports = [t \in Turns |-> <<>>]
  /\ persisted = [t \in Turns |-> <<>>]
  /\ perm = [t \in Turns |-> 0]
  /\ requests = <<>>
  /\ nextId = 1
  /\ pending = {}
  /\ promise = <<>>
  /\ settlements = <<>>
  /\ unhandled = 0

\* ------------------------------------------- PermissionGate: operations
handlerLastWins(state, approved) == approved

\* the resolve function of `new Promise<boolean>`: only the first call counts
handler(state, approved) == IF state = "pending" THEN approved ELSE state

pendingAfterResolveKept(pend, approvalId) == pend

pendingAfterResolveCleared(pend, approvalId) == {}

\* this.pending.delete(approvalId)
pendingAfterResolve(pend, approvalId) == pend \ {approvalId}

permissionResultAlwaysAllow(approved) == "allow"

\* approved ? { behavior: 'allow' } : { behavior: 'deny', message }
permissionResult(approved) == IF approved = "true" THEN "allow" ELSE "deny"

\* the request() call that issued an approval id
reqOf(approvalId) ==
  CHOOSE r \in 1..Len(requests) : requests[r].approvalId = approvalId

\* ids issued so far
IssuedIds == 1..(nextId - 1)

\* PermissionGate.resolve when the id has a handler: handler(approved), delete
settle(approvalId, approved, source) ==
  /\ promise' = [promise EXCEPT ![approvalId] = handler(@, approved)]
  /\ settlements' = [settlements EXCEPT ![approvalId] =
                       Append(@, [source |-> source, approved |-> approved])]
  /\ pending' = pendingAfterResolve(pending, approvalId)

\* if (!handler) throw new Error(`No pending approval for id: ...`)
resolveThrows(pend, approvalId) == approvalId \notin pend

\* PermissionGate.resolve called by an action handler or a test; when it
\* throws, nothing has been changed
ResolveCall(approvalId, approved) ==
  /\ IF resolveThrows(pending, approvalId)
     THEN UNCHANGED <<promise, settlements, pending>>
     ELSE settle(approvalId, approved, "resolve")
  /\ UNCHANGED <<storeVars, turnVars, requests, nextId, unhandled>>

\* postPermissionRequest fulfilled: the .then callback of request
AnnounceReturn(approvalId, directResult) ==
  /\ approvalId \in IssuedIds
  /\ requests[reqOf(approvalId)].announce = "inflight"
  /\ requests' = [requests EXCEPT ![reqOf(approvalId)].announce = "returned"]
  /\ IF approvalId \in pending
     THEN settle(approvalId, directResult, "announce")
     ELSE UNCHANGED <<promise, settlements, pending>>
  /\ UNCHANGED <<storeVars, turnVars, nextId, unhandled>>

\* postPermissionRequest rejected: the .catch callback of request
AnnounceThrow(approvalId) ==
  /\ approvalId \in IssuedIds
  /\ requests[reqOf(approvalId)].announce = "inflight"
  /\ requests' = [requests EXCEPT ![reqOf(approvalId)].announce = "threw"]
  /\ IF resolveThrows(pending, approvalId)
     THEN /\ unhandled' = unhandled + 1
          /\ UNCHANGED <<promise, settlements, pending>>
     ELSE /\ settle(approvalId, "false", "catch")
          /\ UNCHANGED unhandled
  /\ UNCHANGED <<storeVars, turnVars, nextId>>

\* the promise built at line 35 when the executor has run: an exception
\* thrown by postPermissionRequest itself (before it returns a promise) is
\* thrown inside the executor and rejects the promise
promiseAfterExecutor(syncThrow) == IF syncThrow THEN "rejected" ELSE "pending"

pendingAfterSetSkipped(pend, approvalId) == pend

\* this.pending.set(approvalId, resolve) (line 36)
pendingAfterSet(pend, approvalId) == pend \cup {approvalId}

respondArgAlwaysAllow(behavior) == "allow"

\* the argument claudeQuery passes to m.respond (query.ts lines 43-47)
respondArg(behavior) == IF behavior = "allow" THEN "allow" ELSE "deny"

\* what was passed to m.respond for a request: nothing for a request()
\* call made outside any stream, and nothing when canUseTool threw
responded(caller, outcome) ==
  IF caller = 0 \/ outcome = "threw" THEN "none" ELSE respondArg(outcome)

\* PermissionGate.request up to its await (lines 22-46); caller is the turn
\* whose stream asked, 0 for a direct call; syncThrow: postPermissionRequest
\* throws instead of returning a promise; respond is what the stream
\* wrapper that called passed to m.respond
request(caller, tool, syncThrow) ==
  IF isSafe(tool)
  THEN /\ requests' = Append(requests,
                             [turn |-> caller, tool |-> tool,
                              approvalId |-> 0, announce |-> "none",
                              result |-> "allow",
                              respond |-> responded(caller, "allow")])
       /\ UNCHANGED <<nextId, pending, promise, settlements>>
  ELSE /\ requests' = Append(requests,
                             [turn |-> caller, tool |-> tool,
                              approvalId |-> nextId,
                              announce |-> IF syncThrow THEN "threwSync"
                                           ELSE "inflight",
                              result |-> "none", respond |-> "none"])
       /\ nextId' = nextId + 1
       /\ pending' = pendingAfterSet(pending, nextId)
       /\ promise' = Append(promise, promiseAfterExecutor(syncThrow))
       /\ settlements' = Append(settlements, <<>>)

\* what request() does when its await ends (lines 35, 48-50): it throws
\* when the promise was rejected, and returns a PermissionResult otherwise
requestOutcome(state) ==
  IF state = "rejected" THEN "threw" ELSE permissionResult(state)

afterRespondDenyThrows(behavior) ==
  IF behavior = "allow" THEN "pull" ELSE "catchUpdate"

\* claudeQuery after canUseTool (query.ts lines 41-49): respond and continue
\* with the next upstream message when the hook returned, whatever it
\* returned; the hook's exception leaves the generator and reaches the catch
\* block of process()
afterRespond(behavior) ==
  IF behavior = "threw" THEN "catchUpdate" ELSE "pull"

\* the promise awaited by request r is settled: request returns or throws
\* (lines 48-50), and the stream wrapper of the calling turn goes on
RequestReturn(r) ==
  /\ r \in 1..Len(requests)
  /\ requests[r].result = "none"
  /\ promise[requests[r].approvalId] # "pending"
  /\ LET outcome == requestOutcome(promise[requests[r].approvalId])
     IN /\ requests' = [requests EXCEPT
                          ![r].result = outcome,
                          ![r].respond = responded(requests[r].turn, outcome)]
        /\ perm' = [t \in Turns |-> IF perm[t] = r THEN 0 ELSE perm[t]]
        /\ pc' = [t \in Turns |->
                    IF perm[t] = r THEN afterRespond(outcome) ELSE pc[t]]
        /\ caught' = [t \in Turns |->
                        IF perm[t] = r /\ outcome = "threw"
                        THEN "AnnounceError" ELSE caught[t]]
  /\ UNCHANGED <<storeVars, nextId, pending, promise, settlements,
                 unhandled, event, key, existing, startToken,
                 workingDirectory, streamReq, npulled, consumed, partIdx,
                 aborted, raised, reports, persisted>>

\* --------------------------------------------- MessageProcessor.process
\* process() up to its first await: the working-directory guard, the
\* session key and the lookup of the existing session
Process(t, e) ==
  /\ pc[t] = "idle"
  /\ \A u \in Turns : u < t => pc[u] # "idle"
  /\ event' = [event EXCEPT ![t] = e]
  /\ LET dir == findForMessage(workingDirs, e.channelId, e.threadTs)
         k == sessionKey(e.userId, e.channelId, e.threadTs)
     IN IF ~isDM(e.channelId) /\ dir = {}
        THEN /\ pc' = [pc EXCEPT ![t] = "guardSay"]
             /\ UNCHANGED <<key, existing, startToken, workingDirectory>>
        ELSE /\ pc' = [pc EXCEPT ![t] = "sayThinking"]
             /\ key' = [key EXCEPT ![t] = k]
             /\ existing' = [existing EXCEPT ![t] = find(sessions, k)]
             /\ startToken' = [startToken EXCEPT ![t] =
                                 storedToken(sessions, k)]
             /\ workingDirectory' =
                  [workingDirectory EXCEPT ![t] =
                     IF isDM(e.channelId) THEN Undefined
                     ELSE (CHOOSE r \in dir : TRUE).directory]
  /\ UNCHANGED <<storeVars, gateVars, streamReq, npulled, consumed, partIdx,
                 aborted, caught, raised, reports, persisted, perm>>

\* sessionRepo.find throws (line 50, outside the try block): the exception
\* leaves process() before anything was posted
FindThrows(t, e) ==
  /\ pc[t] = "idle"
  /\ \A u \in Turns : u < t => pc[u] # "idle"
  /\ isDM(e.channelId) \/ findForMessage(workingDirs, e.channelId, e.threadTs) # {}
  /\ event' = [event EXCEPT ![t] = e]
  /\ key' = [key EXCEPT ![t] = sessionKey(e.userId, e.channelId, e.threadTs)]
  /\ raised' = [raised EXCEPT ![t] = "StoreError@find"]
  /\ pc' = [pc EXCEPT ![t] = "raised"]
  /\ UNCHANGED <<storeVars, gateVars, existing, startToken, workingDirectory,
                 streamReq, npulled, consumed, partIdx, aborted, caught,
                 reports, persisted, perm>>

\* what one step of process() leaves alone besides pc, reports, raised
TurnFrameNoClock ==
  UNCHANGED <<event, key, existing, startToken, workingDirectory, npulled,
              consumed, aborted, persisted, perm, gateVars, workingDirs>>
TurnFrame == TurnFrameNoClock /\ UNCHANGED now

\* the guard's slackOps.say returns (line 40) and process() returns, or it
\* rejects and the rejection leaves process()
GuardSayDone(t, ok) ==
  /\ pc[t] = "guardSay"
  /\ IF ok
     THEN /\ reports' = [reports EXCEPT ![t] =
                           Append(@, Report("say", "noWorkingDir", <<>>, 0))]
          /\ pc' = [pc EXCEPT ![t] = "blocked"]
          /\ UNCHANGED raised
     ELSE /\ raised' = [raised EXCEPT ![t] = "SlackError@guardSay"]
          /\ pc' = [pc EXCEPT ![t] = "raised"]
          /\ UNCHANGED reports
  /\ UNCHANGED <<sessions, streamReq, partIdx, caught>>
  /\ TurnFrame

\* the 'Thinking...' slackOps.say returns (line 52), addReaction is called
SayThinkingDone(t, ok) ==
  /\ pc[t] = "sayThinking"
  /\ IF ok
     THEN /\ reports' = [reports EXCEPT ![t] =
                           Append(@, Report("say", "thinking", <<>>, 0))]
          /\ pc' = [pc EXCEPT ![t] = "addThinking"]
          /\ UNCHANGED raised
     ELSE /\ raised' = [raised EXCEPT ![t] = "SlackError@sayThinking"]
          /\ pc' = [pc EXCEPT ![t] = "raised"]
          /\ UNCHANGED reports
  /\ UNCHANGED <<sessions, streamReq, partIdx, caught>>
  /\ TurnFrame

resumeNever(ex) == Undefined

\* resume: existing?.claudeSessionId ?? undefined
resumeOf(ex) == claudeSessionIdOf(ex, Undefined)

sessionToUpsertNullToken(t, clock) ==
  [sessionKey |-> key[t],
   claudeSessionId |-> Null,
   userId |-> event[t].userId,
   channelId |-> event[t].channelId,
   threadTs |-> IF event[t].threadTs = Undefined THEN Null
                ELSE event[t].threadTs,
   workingDirectory |-> IF workingDirectory[t] = Undefined THEN Null
                        ELSE workingDirectory[t],
   isActive |-> TRUE,
   lastActivityAt |-> clock]

\* the Session object process() hands to sessionRepo.upsert (lines 63-72)
sessionToUpsert(t, clock) ==
  [sessionKey |-> key[t],
   claudeSessionId |-> claudeSessionIdOf(existing[t], Null),
   userId |-> event[t].userId,
   channelId |-> event[t].channelId,
   threadTs |-> IF event[t].threadTs = Undefined THEN Null
                ELSE event[t].threadTs,
   workingDirectory |-> IF workingDirectory[t] = Undefined THEN Null
                        ELSE workingDirectory[t],
   isActive |-> TRUE,
   lastActivityAt |-> clock]

\* addReaction('thinking_face') returns (line 58); then, without another
\* await, the session upsert and the call of claudeQuery (lines 60-87)
AddThinkingDone(t, clock) ==
  /\ pc[t] = "addThinking"
  /\ now' = clock
  /\ reports' = [reports EXCEPT ![t] =
                   Append(@, Report("addReaction", "thinking_face", <<>>, 0))]
  /\ sessions' = upsert(sessions, sessionToUpsert(t, clock), clock)
  /\ streamReq' = [streamReq EXCEPT ![t] =
                     {[resume |-> resumeOf(existing[t]),
                       cwd |-> workingDirectory[t]]}]
  /\ pc' = [pc EXCEPT ![t] = "pull"]
  /\ UNCHANGED <<partIdx, caught, raised>>
  /\ TurnFrameNoClock

\* addReaction('thinking_face') returns (line 58) and sessionRepo.upsert
\* throws (line 63, inside the try block): control enters the catch block
UpsertThrows(t) ==
  /\ pc[t] = "addThinking"
  /\ reports' = [reports EXCEPT ![t] =
                   Append(@, Report("addReaction", "thinking_face", <<>>, 0))]
  /\ caught' = [caught EXCEPT ![t] = "StoreError@upsert"]
  /\ pc' = [pc EXCEPT ![t] = "catchUpdate"]
  /\ UNCHANGED <<sessions, streamReq, partIdx, raised>>
  /\ TurnFrame

\* ------------------------------------------- the for-await loop (74-113)
relayedNoTrim(part) ==
  \/ part.type = "text" /\ truthy(part.text)
  \/ part.type = "tool_use"

\* the part is relayed with an awaited Slack call
relayed(part) ==
  \/ part.type = "text" /\ truthy(trim(part.text))
  \/ part.type = "tool_use"

\* index of the first relayed part at or after i, Len(parts) + 1 if none
RECURSIVE nextRelayed(_, _)
nextRelayed(parts, i) ==
  IF i > Len(parts) THEN Len(parts) + 1
  ELSE IF relayed(parts[i]) THEN i ELSE nextRelayed(parts, i + 1)

RelayFromNoAwait(t, parts, i) ==
  /\ pc' = [pc EXCEPT ![t] = "pull"]
  /\ partIdx' = [partIdx EXCEPT ![t] = 0]

\* walk the content parts from index i to the next awaited Slack call, or
\* back to the head of the loop when no part is left
RelayFrom(t, parts, i) ==
  LET j == nextRelayed(parts, i)
  IN IF j > Len(parts)
     THEN /\ pc' = [pc EXCEPT ![t] = "pull"]
          /\ partIdx' = [partIdx EXCEPT ![t] = 0]
     ELSE /\ pc' = [pc EXCEPT ![t] =
                      IF parts[j].type = "text" THEN "partSay"
                      ELSE "partUpdate"]
          /\ partIdx' = [partIdx EXCEPT ![t] = j]

StreamFrameNoClock ==
  UNCHANGED <<event, key, existing, startToken, workingDirectory, streamReq,
              aborted, raised, perm, gateVars, workingDirs>>
StreamFrame == StreamFrameNoClock /\ UNCHANGED now

\* upstream messages delivered so far, over all streams
TotalPulled == npulled[1] + npulled[2]

\* tool names the streams of the turns ask permission for
StreamTools ==
  {SAFE_TOOLS[1], <<"B", "a", "s", "h">>,
   <<"m", "c", "p", "_", "_", "g", "h">>}

awaitingCanUseToolNever(p) == FALSE

\* the stream wrapper is suspended at `await canUseTool(...)` (query.ts line
\* 41): p is the request() call it waits for, 0 when it waits for none
awaitingCanUseTool(p) == p # 0

\* claudeQuery intercepts a permission_request (query.ts line 40) and awaits
\* canUseTool, which is permissionGate.request (line 84)
StreamPermissionRequest(t, tool, syncThrow) ==
  /\ pc[t] = "pull"
  /\ ~awaitingCanUseTool(perm[t])
  /\ TotalPulled < MaxMsgs
  /\ npulled' = [npulled EXCEPT ![t] = @ + 1]
  /\ request(t, tool, syncThrow)
  /\ perm' = [perm EXCEPT ![t] =
                IF isSafe(tool) THEN 0 ELSE Len(requests) + 1]
  /\ UNCHANGED <<storeVars, unhandled, pc, event, key, existing, startToken,
                 workingDirectory, streamReq, consumed, partIdx, aborted,
                 caught, raised, reports, persisted>>

\* PermissionGate.request called directly, outside any turn
GateRequest(tool, syncThrow) ==
  /\ Len(requests) < MaxRequests
  /\ request(0, tool, syncThrow)
  /\ UNCHANGED <<storeVars, turnVars, unhandled>>

breakOnAbortNever(signalAborted) == FALSE

\* if (abortController.signal.aborted) break;  (line 88, head of the body)
breakOnAbort(signalAborted) == signalAborted

\* the stream yields a message: one pass of the loop body up to its await
isInitAnySystem(msg) == msg.type = "system"

\* the first test of the loop body (line 90)
isInit(msg) == msg.type = "system" /\ msg.subtype = "init"

StreamYield(t, msg, clock) ==
  /\ pc[t] = "pull"
  /\ ~awaitingCanUseTool(perm[t])
  /\ TotalPulled < MaxMsgs
  /\ npulled' = [npulled EXCEPT ![t] = @ + 1]
  /\ IF breakOnAbort(aborted[t])
     THEN /\ pc' = [pc EXCEPT ![t] = "finishRemove"]
          /\ clock = now
          /\ UNCHANGED <<consumed, partIdx, sessions, persisted, now>>
     ELSE /\ consumed' = [consumed EXCEPT ![t] = Append(@, msg)]
          /\ IF isInit(msg)
             THEN /\ sessions' = updateClaudeSessionId(sessions, key[t],
                                                       msg.session_id, clock)
                  /\ persisted' = [persisted EXCEPT ![t] =
                                     Append(@, msg.session_id)]
                  /\ now' = clock
                  /\ UNCHANGED <<pc, partIdx>>
             ELSE IF msg.type = "assistant"
             THEN /\ RelayFrom(t, msg.content, 1)
                  /\ clock = now
                  /\ UNCHANGED <<sessions, persisted, now>>
             ELSE IF msg.type = "result"
             THEN /\ pc' = [pc EXCEPT ![t] = "resultUpdate"]
                  /\ clock = now
                  /\ UNCHANGED <<partIdx, sessions, persisted, now>>
             ELSE /\ clock = now
                  /\ UNCHANGED <<pc, partIdx, sessions, persisted, now>>
  /\ UNCHANGED <<caught, reports>>
  /\ StreamFrameNoClock

\* the stream yields a system/init message and updateClaudeSessionId throws
\* (line 91): control enters the catch block
UpdateThrows(t, msg) ==
  /\ pc[t] = "pull"
  /\ ~awaitingCanUseTool(perm[t])
  /\ TotalPulled < MaxMsgs
  /\ ~breakOnAbort(aborted[t])
  /\ isInit(msg)
  /\ npulled' = [npulled EXCEPT ![t] = @ + 1]
  /\ consumed' = [consumed EXCEPT ![t] = Append(@, msg)]
  /\ caught' = [caught EXCEPT ![t] = "StoreError@update"]
  /\ pc' = [pc EXCEPT ![t] = "catchUpdate"]
  /\ UNCHANGED <<partIdx, sessions, persisted, reports>>
  /\ StreamFrame

\* the stream is exhausted: the loop ends, removeReaction is called
StreamEnd(t) ==
  /\ pc[t] = "pull"
  /\ ~awaitingCanUseTool(perm[t])
  /\ pc' = [pc EXCEPT ![t] = "finishRemove"]
  /\ UNCHANGED <<npulled, consumed, partIdx, sessions, persisted, caught,
                 reports>>
  /\ StreamFrame

\* the stream throws: control enters the catch block (line 119)
StreamThrow(t) ==
  /\ pc[t] = "pull"
  /\ ~awaitingCanUseTool(perm[t])
  /\ caught' = [caught EXCEPT ![t] = "StreamError"]
  /\ pc' = [pc EXCEPT ![t] = "catchUpdate"]
  /\ UNCHANGED <<npulled, consumed, partIdx, sessions, persisted, reports>>
  /\ StreamFrame

\* the holder of the AbortController aborts it
Abort(t) ==
  /\ pc[t] \in {"pull", "partSay", "partUpdate", "resultUpdate"}
  /\ ~aborted[t]
  /\ aborted' = [aborted EXCEPT ![t] = TRUE]
  /\ UNCHANGED <<storeVars, gateVars, pc, event, key, existing, startToken,
                 workingDirectory, streamReq, npulled, consumed, partIdx,
                 caught, raised, reports, persisted, perm>>

\* the current message and content part of call t
curMsg(t) == consumed[t][Len(consumed[t])]
curPart(t) == curMsg(t).content[partIdx[t]]

\* slackOps.say of a text part returns or rejects (line 95)
PartSayDone(t, ok) ==
  /\ pc[t] = "partSay"
  /\ IF ok
     THEN /\ reports' = [reports EXCEPT ![t] =
                           Append(@, Report("say", "content",
                                            curPart(t).text, 0))]
          /\ RelayFrom(t, curMsg(t).content, partIdx[t] + 1)
          /\ UNCHANGED caught
     ELSE /\ caught' = [caught EXCEPT ![t] = "SlackError@partSay"]
          /\ pc' = [pc EXCEPT ![t] = "catchUpdate"]
          /\ UNCHANGED <<reports, partIdx>>
  /\ UNCHANGED <<npulled, consumed, sessions, persisted>>
  /\ StreamFrame

\* slackOps.updateMessage of a tool_use part returns or rejects (line 100)
PartUpdateDone(t, ok) ==
  /\ pc[t] = "partUpdate"
  /\ IF ok
     THEN /\ reports' = [reports EXCEPT ![t] =
                           Append(@, Report("updateMessage", "working",
                                            curPart(t).name, 0))]
          /\ RelayFrom(t, curMsg(t).content, partIdx[t] + 1)
          /\ UNCHANGED caught
     ELSE /\ caught' = [caught EXCEPT ![t] = "SlackError@partUpdate"]
          /\ pc' = [pc EXCEPT ![t] = "catchUpdate"]
          /\ UNCHANGED <<reports, partIdx>>
  /\ UNCHANGED <<npulled, consumed, sessions, persisted>>
  /\ StreamFrame

\* the cost field of a Report whose text has no cost suffix
NoCostSuffix == -1

\* message.total_cost_usd ? ` _(${...toFixed(4)} USD)_` : ''
costShown(msg) ==
  IF msg.has_cost /\ msg.total_cost_usd # 0 THEN msg.total_cost_usd
  ELSE NoCostSuffix

\* slackOps.updateMessage('Completed') returns or rejects (line 111)
ResultUpdateDone(t, ok) ==
  /\ pc[t] = "resultUpdate"
  /\ IF ok
     THEN /\ reports' = [reports EXCEPT ![t] =
                           Append(@, Report("updateMessage", "completed",
                                            <<>>, costShown(curMsg(t))))]
          /\ pc' = [pc EXCEPT ![t] = "pull"]
          /\ UNCHANGED caught
     ELSE /\ caught' = [caught EXCEPT ![t] = "SlackError@resultUpdate"]
          /\ pc' = [pc EXCEPT ![t] = "catchUpdate"]
          /\ UNCHANGED reports
  /\ UNCHANGED <<npulled, consumed, partIdx, sessions, persisted>>
  /\ StreamFrame

\* ------------------------------------------ after the loop, and the catch
\* removeReaction('thinking_face') returns (line 115)
FinishRemoveDone(t) ==
  /\ pc[t] = "finishRemove"
  /\ reports' = [reports EXCEPT ![t] =
                   Append(@, Report("removeReaction", "thinking_face",
                                    <<>>, 0))]
  /\ pc' = [pc EXCEPT ![t] = "finishAdd"]
  /\ UNCHANGED <<sessions, streamReq, partIdx, caught, raised>>
  /\ TurnFrame

\* addReaction('white_check_mark') returns (line 116), process() returns
FinishAddDone(t) ==
  /\ pc[t] = "finishAdd"
  /\ reports' = [reports EXCEPT ![t] =
                   Append(@, Report("addReaction", "white_check_mark",
                                    <<>>, 0))]
  /\ pc' = [pc EXCEPT ![t] = "completed"]
  /\ UNCHANGED <<sessions, streamReq, partIdx, caught, raised>>
  /\ TurnFrame

\* the error that leaves the catch block's updateMessage (line 120)
errorAfterCatchUpdate(caughtError, ok) ==
  IF ok THEN caughtError ELSE "SlackError@catchUpdate"

\* updateMessage('Error occurred') returns or rejects (line 120)
CatchUpdateDone(t, ok) ==
  /\ pc[t] = "catchUpdate"
  /\ IF ok
     THEN /\ reports' = [reports EXCEPT ![t] =
                           Append(@, Report("updateMessage", "error",
                                            <<>>, 0))]
          /\ pc' = [pc EXCEPT ![t] = "catchRemove"]
          /\ UNCHANGED raised
     ELSE /\ raised' = [raised EXCEPT ![t] =
                          errorAfterCatchUpdate(caught[t], ok)]
          /\ pc' = [pc EXCEPT ![t] = "raised"]
          /\ UNCHANGED reports
  /\ UNCHANGED <<sessions, streamReq, partIdx, caught>>
  /\ TurnFrame

\* removeReaction('thinking_face') returns (line 121)
CatchRemoveDone(t) ==
  /\ pc[t] = "catchRemove"
  /\ reports' = [reports EXCEPT ![t] =
                   Append(@, Report("removeReaction", "thinking_face",
                                    <<>>, 0))]
  /\ pc' = [pc EXCEPT ![t] = "catchAdd"]
  /\ UNCHANGED <<sessions, streamReq, partIdx, caught, raised>>
  /\ TurnFrame

\* addReaction('x') returns (line 122); throw error (line 123)
CatchAddDone(t) ==
  /\ pc[t] = "catchAdd"
  /\ reports' = [reports EXCEPT ![t] =
                   Append(@, Report("addReaction", "x", <<>>, 0))]
  /\ raised' = [raised EXCEPT ![t] = errorAfterCatchUpdate(caught[t], TRUE)]
  /\ pc' = [pc EXCEPT ![t] = "raised"]
  /\ UNCHANGED <<sessions, streamReq, partIdx, caught>>
  /\ TurnFrame

\* values Date.now() can return in the step being taken
Clocks == now..MaxClock

\* the steps of process() call t, after its start, that a turn in a DM
\* takes on a stream without assistant messages and permission requests,
\* with Date.now() returning a value in clocks
StoreStepAt(t, msgs, clocks) ==
  \/ \E ok \in BOOLEAN : SayThinkingDone(t, ok)
  \/ \E clock \in clocks : AddThinkingDone(t, clock)
  \/ \E msg \in msgs, clock \in clocks : StreamYield(t, msg, clock)
  \/ StreamEnd(t)
  \/ StreamThrow(t)
  \/ \E ok \in BOOLEAN : ResultUpdateDone(t, ok)
  \/ FinishRemoveDone(t)
  \/ FinishAddDone(t)
  \/ \E ok \in BOOLEAN : CatchUpdateDone(t, ok)
  \/ CatchRemoveDone(t)
  \/ CatchAddDone(t)

StoreStep(t, msgs) == StoreStepAt(t, msgs, Clocks)

\* the steps of call t that relay content parts and ask for permissions
LoopStep(t, tools) ==
  \/ \E tool \in tools, syncThrow \in BOOLEAN :
       StreamPermissionRequest(t, tool, syncThrow)
  \/ \E ok \in BOOLEAN : PartSayDone(t, ok)
  \/ \E ok \in BOOLEAN : PartUpdateDone(t, ok)

\* the steps of call t in which the session store fails inside the try
StoreFailStep(t, msgs) ==
  \/ UpsertThrows(t)
  \/ \E msg \in msgs : UpdateThrows(t, msg)

\* a step of process() call t other than its start
TurnStep(t, msgs, tools) ==
  \/ StoreStep(t, msgs)
  \/ \E ok \in BOOLEAN : GuardSayDone(t, ok)
  \/ LoopStep(t, tools)
  \/ StoreFailStep(t, msgs)

\* steps of the gate; resolve() is called with issued ids and an unknown one
GateStep ==
  \/ \E r \in 1..Len(requests) : RequestReturn(r)
  \/ \E id \in 0..(nextId - 1), approved \in {"true", "false"} :
       ResolveCall(id, approved)
  \/ \E id \in IssuedIds, directResult \in {"true", "false", "undefined"} :
       AnnounceReturn(id, directResult)
  \/ \E id \in IssuedIds : AnnounceThrow(id)

\* one process() call with every kind of stream message
Next ==
  \/ \E e \in IncomingMessages : Process(1, e)
  \/ \E e \in IncomingMessages : FindThrows(1, e)
  \/ TurnStep(1, Messages, StreamTools)
  \/ Abort(1)
  \/ GateStep

Spec == Init /\ [][Next]_vars

\* the event of a direct message outside any thread
RelayEvent == [userId |-> U1, channelId |-> D1, threadTs |-> Undefined]

InitRelay == Init /\ workingDirs = {}

\* what the stream of that call can yield
RelayMessages == Messages \cup {StatusMsg}

\* one process() call in a direct message, with every kind of stream
\* message, permission requests and cancellation, while the clock stands
\* still
NextRelay ==
  \/ Process(1, RelayEvent)
  \/ StoreStepAt(1, RelayMessages, {now})
  \/ LoopStep(1, StreamTools)
  \/ StoreFailStep(1, Messages)
  \/ Abort(1)
  \/ GateStep

SpecRelay == InitRelay /\ [][NextRelay]_vars

\* the pending table of the PermissionGate that registerHandlers creates
\* (part_009 line 184): request() is never called on that instance, each
\* MessageProcessor registers its approvals in a gate of its own
\* (message-processor.ts line 19), so the table stays empty
handlersPending == {}

\* the approve_tool / deny_tool action handlers (part_009 lines 466-485):
\* resolve() on the gate of registerHandlers; its 'No pending approval'
\* error is caught and logged
ActionHandler(approvalId, approved) ==
  /\ IF resolveThrows(handlersPending, approvalId)
     THEN UNCHANGED <<promise, settlements, pending>>
     ELSE settle(approvalId, approved, "resolve")
  /\ UNCHANGED <<storeVars, turnVars, requests, nextId, unhandled>>

\* one process() call in a direct message as the handlers wire it: the
\* only callers of resolve() are the gate itself and the action handlers
NextActions ==
  \/ Process(1, RelayEvent)
  \/ StoreStepAt(1, Messages, {now})
  \/ LoopStep(1, StreamTools)
  \/ Abort(1)
  \/ \E r \in 1..Len(requests) : RequestReturn(r)
  \/ \E id \in IssuedIds, directResult \in {"true", "false", "undefined"} :
       AnnounceReturn(id, directResult)
  \/ \E id \in IssuedIds : AnnounceThrow(id)
  \/ \E id \in IssuedIds, approved \in {"true", "false"} :
       ActionHandler(id, approved)

SpecActions == InitRelay /\ [][NextActions]_vars

\* what the postPermissionRequest of buildSlackOps resolves to once the
\* prompt is posted (part_009 line 170: `return false`)
ProdDirectResult == "false"

\* one process() call in a direct message with the slackOps that
\* buildSlackOps returns: postPermissionRequest is an async function, so it
\* never throws before returning its promise; it resolves to false when
\* chat.postMessage returned and rejects when chat.postMessage rejected
NextProd ==
  \/ Process(1, RelayEvent)
  \/ StoreStepAt(1, RelayMessages, {now})
  \/ \E tool \in StreamTools : StreamPermissionRequest(1, tool, FALSE)
  \/ \E ok \in BOOLEAN : PartSayDone(1, ok)
  \/ \E ok \in BOOLEAN : PartUpdateDone(1, ok)
  \/ Abort(1)
  \/ \E r \in 1..Len(requests) : RequestReturn(r)
  \/ \E id \in IssuedIds : AnnounceReturn(id, ProdDirectResult)
  \/ \E id \in IssuedIds : AnnounceThrow(id)
  \/ \E id \in IssuedIds, approved \in {"true", "false"} :
       ActionHandler(id, approved)

SpecProd == InitRelay /\ [][NextProd]_vars

\* one process() call for a message of a channel without a working
\* directory or of a direct message, with every kind of stream message,
\* permission requests and cancellation
NextLive ==
  \/ \E e \in IncomingMessages : Process(1, e)
  \/ \E ok \in BOOLEAN : GuardSayDone(1, ok)
  \/ StoreStepAt(1, RelayMessages, {now})
  \/ LoopStep(1, StreamTools)
  \/ Abort(1)
  \/ GateStep

\* the event loop runs every continuation that is ready: each awaited
\* Slack call settles, each pull of the stream yields, ends or throws, and
\* each request settled is returned from
SpecLive == InitRelay /\ [][NextLive]_vars /\ WF_vars(NextLive)

\* who a session belongs to, as callers of the repository pass it
SessionOwners ==
  {[userId |-> U1, channelId |-> D1, threadTs |-> Null],
   [userId |-> U2, channelId |-> C2, threadTs |-> Thread1]}

\* the fields of a session that an upsert may change
SessionContents ==
  {[claudeSessionId |-> Null, workingDirectory |-> Null, isActive |-> TRUE],
   [claudeSessionId |-> S1, workingDirectory |-> DirP, isActive |-> FALSE],
   [claudeSessionId |-> S2, workingDirectory |-> Null, isActive |-> TRUE]}

\* keys the repository is called with
StoreKeys ==
  {sessionKey(U1, D1, Undefined), sessionKey(U2, C2, Thread1)}

\* SessionRepository.upsert called with any session object: the key is not
\* tied to the owner fields, as in the repository's own tests
RepoUpsert(k, owner, contents, clock) ==
  /\ now' = clock
  /\ sessions' =
       upsert(sessions,
              [sessionKey |-> k,
               claudeSessionId |-> contents.claudeSessionId,
               userId |-> owner.userId,
               channelId |-> owner.channelId,
               threadTs |-> owner.threadTs,
               workingDirectory |-> contents.workingDirectory,
               isActive |-> contents.isActive,
               lastActivityAt |-> clock],
              clock)
  /\ UNCHANGED <<workingDirs, turnVars, gateVars>>

\* the SessionRepository used on its own: any sequence of upserts
NextStore ==
  \E k \in StoreKeys, owner \in SessionOwners, contents \in SessionContents,
     clock \in Clocks :
    RepoUpsert(k, owner, contents, clock)

SpecStore == Init /\ [][NextStore]_vars

\* SessionRepository.updateClaudeSessionId called with any key and token
RepoUpdate(k, claudeSessionId, clock) ==
  /\ now' = clock
  /\ sessions' = updateClaudeSessionId(sessions, k, claudeSessionId, clock)
  /\ UNCHANGED <<workingDirs, turnVars, gateVars>>

\* the SessionRepository used on its own: upserts and token updates in any
\* order, for keys that have a row and keys that have none
NextStoreUpdate ==
  \/ NextStore
  \/ \E k \in StoreKeys, tok \in Tokens, clock \in Clocks :
       RepoUpdate(k, tok, clock)

SpecStoreUpdate == Init /\ [][NextStoreUpdate]_vars

\* (userId, channelId, threadTs) triples handed to sessionKey: ids as Slack
\* issues them, and strings with a dash or equal to the word 'direct'
KeyTriples ==
  [userId : {<<"U">>, <<"V">>, <<"U", "-", "C">>},
   channelId : {<<"D">>, <<"C", "-", "D">>},
   threadTs : {Undefined, Direct, <<"t">>, <<"t", "-", "1">>}]

\* the first statements of process() for a DM: the key of the event
DeriveKey(t, e) ==
  /\ event' = [event EXCEPT ![t] = e]
  /\ key' = [key EXCEPT ![t] = sessionKey(e.userId, e.channelId, e.threadTs)]
  /\ UNCHANGED <<storeVars, gateVars, pc, existing, startToken,
                 workingDirectory, streamReq, npulled, consumed, partIdx,
                 aborted, caught, raised, reports, persisted, perm>>

\* sessionKey on its own, applied to the events of two calls
NextKey == \E t \in Turns, e \in KeyTriples : DeriveKey(t, e)

SpecKey == Init /\ [][NextKey]_vars

C3 == <<"C", "3">>
Thread2 == <<"t", "2">>
DirQ == <<"/", "q">>

\* what the cwd command leaves alone
CwdFrame == UNCHANGED <<sessions, now, turnVars, gateVars>>

\* the app_mention handler on a `cwd <path>` command (part_009 lines
\* 211-229): the directory is stored for the thread when the mention is in
\* a thread, for the channel otherwise
CwdMention(channelId, threadTs, resolved) ==
  /\ workingDirs' =
       set(workingDirs,
           [dirKey |-> IF truthy(threadTs)
                       THEN channelId \o Dash \o threadTs ELSE channelId,
            channelId |-> channelId,
            threadTs |-> IF threadTs = Undefined THEN Null ELSE threadTs,
            directory |-> resolved])
  /\ CwdFrame

\* the direct-message handler on a `cwd <path>` command (part_009 lines
\* 330-347): the directory is stored for the DM channel
CwdDM(channelId, resolved) ==
  /\ isDM(channelId)
  /\ workingDirs' =
       set(workingDirs,
           [dirKey |-> channelId, channelId |-> channelId,
            threadTs |-> Null, directory |-> resolved])
  /\ CwdFrame

DirChannels == {C2, C3}
DirThreads == {Thread1, Thread2}
Dirs == {DirP, DirQ}

\* the cwd commands of users in two channels, their threads and a DM
CwdStep ==
  \/ \E c \in DirChannels, th \in DirThreads \cup {Undefined}, d \in Dirs :
       CwdMention(c, th, d)
  \/ \E d \in Dirs : CwdDM(D1, d)

\* the WorkingDirectoryRepository as the cwd commands fill it
SpecDirs == Init /\ [][CwdStep]_vars

\* a cwd command handled while no process() call is in progress
CwdBeforeTurn == (\A t \in Turns : pc[t] = "idle") /\ CwdStep

\* cwd commands, then one process() call for a message of a channel, a
\* thread or a direct message, with a stream that ends after its result
NextCwd ==
  \/ CwdBeforeTurn
  \/ \E e \in IncomingMessages : Process(1, e)
  \/ \E ok \in BOOLEAN : GuardSayDone(1, ok)
  \/ StoreStepAt(1, {ResultMsg(FALSE, 0)}, {now})

SpecCwd == Init /\ [][NextCwd]_vars

\* the PermissionGate used on its own, as its unit tests use it
NextGate ==
  \/ \E tool \in ToolNames, syncThrow \in BOOLEAN : GateRequest(tool, syncThrow)
  \/ GateStep

SpecGate == Init /\ [][NextGate]_vars

\* messages and events of the two-turn specifications: what touches the
\* session store
ConcMessages == {InitMsg(tok) : tok \in Tokens} \cup {ResultMsg(FALSE, 0)}
ConcEvents == {e \in IncomingMessages : e.channelId = D1}

\* two process() calls interleaved at their await points
NextConc ==
  \/ \E t \in Turns, e \in ConcEvents : Process(t, e)
  \/ \E t \in Turns : StoreStep(t, ConcMessages)

SpecConc == Init /\ [][NextConc]_vars

\* no other process() call is between its start and its end
NoTurnInFlight ==
  \A t \in Turns : pc[t] \in {"idle", "blocked", "completed", "raised"}

\* two process() calls one after the other
NextSeq ==
  \/ \E t \in Turns, e \in ConcEvents : NoTurnInFlight /\ Process(t, e)
  \/ \E t \in Turns : StoreStep(t, ConcMessages)

SpecSeq == Init /\ [][NextSeq]_vars

\* ======================================================= properties
\* names in the fixed SAFE_TOOLS list (part_006 lines 4-13), written out
SafeNames ==
  { <<"R", "e", "a", "d">>, <<"G", "l", "o", "b">>, <<"G", "r", "e", "p">>,
    <<"L", "S">>, <<"W", "e", "b", "S", "e", "a", "r", "c", "h">>,
    <<"W", "e", "b", "F", "e", "t", "c", "h">>,
    <<"T", "o", "d", "o", "W", "r", "i", "t", "e">>,
    <<"T", "o", "d", "o", "R", "e", "a", "d">> }

\* the name is in the safe list or carries the mcp__ prefix
ListedOrMcp(tool) ==
  \/ tool \in SafeNames
  \/ /\ Len(tool) >= 5
     /\ \A i \in 1..5 : tool[i] = <<"m", "c", "p", "_", "_">>[i]

Requests == 1..Len(requests)

\* request r went down the approval path and has returned
Decided(r) ==
  requests[r].approvalId # 0 /\ requests[r].result \in {"allow", "deny"}

\* C1: a request() for a tool that is not safe returns allow exactly when the
\* first settlement of its approval id carried approved = true (announce
\* returning true while the id was pending, or a resolve(id, true) before any
\* other settlement); it returns deny otherwise and never returns without a
\* settlement.
C1_AllowIffFirstSettlementApproves ==
  \A r \in Requests :
    Decided(r) =>
      LET first == settlements[requests[r].approvalId]
      IN /\ first # <<>>
         /\ requests[r].result \in {"allow", "deny"}
         /\ requests[r].result = "allow" <=> first[1].approved = "true"
         /\ first[1].source = "announce" =>
              requests[r].announce = "returned"
         /\ first[1].source = "catch" =>
              requests[r].announce = "threw" /\ first[1].approved = "false"

\* C1 witness: one request allowed by an out-of-band resolve(id, true) and
\* another denied by announce returning false
C1_Witness ==
  \E r1, r2 \in Requests :
    /\ Decided(r1) /\ requests[r1].result = "allow"
    /\ settlements[requests[r1].approvalId][1] =
         [source |-> "resolve", approved |-> "true"]
    /\ Decided(r2) /\ requests[r2].result = "deny"
    /\ settlements[requests[r2].approvalId][1] =
         [source |-> "announce", approved |-> "false"]

\* C2: once an approval id has been settled (by announce's return, by its
\* failure or by resolve), resolve on that id throws; resolve on an id that
\* was never registered throws as well.
C2_ResolveAfterSettlementThrows ==
  \A id \in 0..nextId :
    (id \notin IssuedIds \/ settlements[id] # <<>>) =>
      resolveThrows(pending, id)

\* C2 witness: an id settled through announce and an id settled through
\* resolve, both now rejected by resolve
C2_Witness ==
  \E id1, id2 \in IssuedIds :
    /\ settlements[id1] # <<>> /\ settlements[id1][1].source = "announce"
    /\ settlements[id2] # <<>> /\ settlements[id2][1].source = "resolve"
    /\ resolveThrows(pending, id1) /\ resolveThrows(pending, id2)

\* C3: isSafe classifies as safe exactly the names in SAFE_TOOLS and the
\* names that start with 'mcp__'; every other name needs approval.
C3_SafeIffListedOrMcp ==
  \A r \in Requests :
    (requests[r].announce = "none") <=> ListedOrMcp(requests[r].tool)

\* C3 witness: an mcp__ name classified safe next to a name with a single
\* underscore sent to approval
C3_Witness ==
  \E r1, r2 \in Requests :
    /\ requests[r1].tool = <<"m", "c", "p", "_", "_", "g", "h">>
    /\ requests[r1].announce = "none"
    /\ requests[r2].tool = <<"m", "c", "p", "_", "g", "h">>
    /\ requests[r2].announce # "none"

\* C4: a request() for a safe tool returns allow at once: announce is not
\* called for it and no approval id or pending entry is created for it.
C4_SafeToolAllowedWithoutAnnounce ==
  /\ \A r \in Requests :
       ListedOrMcp(requests[r].tool) =>
         /\ requests[r].result = "allow"
         /\ requests[r].announce = "none"
         /\ requests[r].approvalId = 0
  /\ nextId - 1 =
       Cardinality({r \in Requests : ~ListedOrMcp(requests[r].tool)})
  /\ \A id \in pending : ~ListedOrMcp(requests[reqOf(id)].tool)

\* C4 witness: a safe tool was allowed while another request is pending
C4_Witness ==
  \E r \in Requests :
    /\ requests[r].tool = <<"R", "e", "a", "d">>
    /\ requests[r].result = "allow"
    /\ pending # {}

\* process() call t has ended
Ended(t) == pc[t] \in {"blocked", "completed", "raised"}

\* call t is for a channel that is not a DM and has no working directory
Unconfigured(t) ==
  /\ pc[t] # "idle"
  /\ event[t].channelId[1] # "D"
  /\ \A r \in workingDirs :
       /\ r.dir_key # event[t].channelId
       /\ r.dir_key # event[t].channelId \o <<"-">> \o event[t].threadTs

\* C5: process() for a non-DM channel without a resolvable working directory
\* ends blocked and does not raise: exactly one notice about the missing
\* directory is posted, claudeQuery is never called and the sessions table is
\* left as it was.
C5_NoWorkingDirEndsBlocked ==
  \A t \in Turns :
    Unconfigured(t) =>
      /\ streamReq[t] = {}
      /\ sessions = {}
      /\ Ended(t) =>
           /\ pc[t] = "blocked"
           /\ raised[t] = NoError
           /\ reports[t] = <<Report("say", "noWorkingDir", <<>>, 0)>>

\* the token of the row for k as the table holds it, read field by field
TokenIn(rows, k) ==
  IF \E r \in rows : r.session_key = k
  THEN (CHOOSE r \in rows : r.session_key = k).claude_session_id
  ELSE Null

\* C6: the resume option a turn passes to claudeQuery is the upstream token
\* stored for its key when the turn started, and nothing when no row or a
\* null token was stored; a turn that starts after token T was stored for its
\* key passes resume = T.
C6_ResumeIsTokenStoredAtStart ==
  \A t \in Turns :
    streamReq[t] # {} =>
      \A q \in streamReq[t] :
        q.resume = IF startToken[t] = Null THEN Undefined ELSE startToken[t]

\* C6 witness: the first turn stored S1 and ended; the second turn, started
\* afterwards for the same key, called claudeQuery with resume = S1
C6_Witness ==
  /\ pc[1] = "completed"
  /\ persisted[1] = <<S1>>
  /\ key[2] = key[1]
  /\ startToken[2] = S1
  /\ streamReq[2] # {}
  /\ \A q \in streamReq[2] : q.resume = S1

\* the tokens of the session-initialized events in a sequence of messages
RECURSIVE initTokens(_)
initTokens(msgs) ==
  IF msgs = <<>> THEN <<>>
  ELSE IF Head(msgs).type = "system" /\ Head(msgs).subtype = "init"
       THEN <<Head(msgs).session_id>> \o initTokens(Tail(msgs))
       ELSE initTokens(Tail(msgs))

UpsertStep(t) == pc[t] = "addThinking" /\ pc'[t] = "pull"

\* the step is the handling of a session-initialized event by call t
InitStep(t) ==
  /\ pc[t] = "pull"
  /\ Len(consumed'[t]) = Len(consumed[t]) + 1
  /\ consumed'[t][Len(consumed'[t])].type = "system"
  /\ consumed'[t][Len(consumed'[t])].subtype = "init"

RowIn(rows, k) == CHOOSE r \in rows : r.session_key = k

\* C8: in sequential turns the session upsert at the start of a turn, on a
\* key whose row holds a non-null upstream token, leaves the token as it is
\* and sets active = true and the last-activity time; the token is never
\* nulled.
C8_UpsertKeepsStoredToken ==
  [][\A t \in Turns :
       (UpsertStep(t) /\ TokenIn(sessions, key[t]) # Null) =>
         /\ TokenIn(sessions', key[t]) = TokenIn(sessions, key[t])
         /\ TokenIn(sessions', key[t]) = startToken[t]
         /\ RowIn(sessions', key[t]).is_active = 1
         /\ RowIn(sessions', key[t]).last_activity_at = now']_vars

\* C8 witness: the second turn upserted a row that held S1, at a later time
C8_Witness ==
  /\ pc[1] = "completed"
  /\ pc[2] = "pull"
  /\ key[2] = key[1]
  /\ startToken[2] = S1
  /\ TokenIn(sessions, key[2]) = S1
  /\ RowIn(sessions, key[2]).last_activity_at = 1
  /\ RowIn(sessions, key[2]).created_at = 0

\* C9: when two turns for one key interleave, a token persisted by one turn's
\* session-initialized event is not replaced, by the other turn's session
\* upsert, with null or with the token it had replaced.
C9_UpsertNeverOverwritesConcurrentInit ==
  [][\A t \in Turns :
       (/\ UpsertStep(t)
        /\ \E u \in Turns \ {t} :
             /\ key[u] = key[t]
             /\ persisted[u] # <<>>
             /\ persisted[u][Len(persisted[u])] = TokenIn(sessions, key[t]))
       => TokenIn(sessions', key[t]) = TokenIn(sessions, key[t])]_vars

\* C10: when the stream throws while it is consumed, the failure status is
\* reported on the status message and then the same error leaves process().
C10_StreamErrorReportedThenRethrown ==
  \A t \in Turns :
    (pc[t] = "raised" /\ caught[t] = "StreamError") =>
      /\ raised[t] = "StreamError"
      /\ \E i \in 1..Len(reports[t]) :
           reports[t][i] = Report("updateMessage", "error", <<>>, 0)

\* the turn has reported the failure status on its status message
FailureReported(t) ==
  \E i \in 1..Len(reports[t]) :
    reports[t][i] = Report("updateMessage", "error", <<>>, 0)

\* C11: the only errors that leave process() are exceptions thrown by the
\* stream while it is consumed; the guard, the session lookup, the status
\* post and the marker calls let no error out.
C11_OnlyStreamErrorsEscape ==
  \A t \in Turns : raised[t] \in {NoError, "StreamError"}

\* errors of the stream and of the session store
InfraFaults ==
  {"StreamError", "StoreError@find", "StoreError@upsert", "StoreError@update"}

\* C12: a stream failure or a session-store failure (in find, upsert or
\* updateClaudeSessionId) that leaves process() was reported as a failure
\* status before it left, and such a failure, once it happened, is not
\* swallowed: the call does not end normally.
C12_InfraFaultNotifiedThenPropagated ==
  \A t \in Turns :
    /\ raised[t] \in InfraFaults => FailureReported(t)
    /\ (Ended(t) /\ caught[t] \in InfraFaults) => raised[t] # NoError

\* the text has a character that is not white space
NonBlank(text) == \E i \in 1..Len(text) : text[i] \notin {" ", "\t", "\n"}

\* the Slack calls that relay one content part
RelayOfPart(part) ==
  IF part.type = "text" /\ NonBlank(part.text)
  THEN <<Report("say", "content", part.text, 0)>>
  ELSE IF part.type = "tool_use"
  THEN <<Report("updateMessage", "working", part.name, 0)>>
  ELSE <<>>

RECURSIVE RelayOfParts(_)
RelayOfParts(parts) ==
  IF parts = <<>> THEN <<>>
  ELSE RelayOfPart(Head(parts)) \o RelayOfParts(Tail(parts))

\* the Slack calls that relay one stream event
RelayOfMsg(msg) ==
  IF msg.type = "assistant" THEN RelayOfParts(msg.content)
  ELSE IF msg.type = "result"
  THEN <<Report("updateMessage", "completed", <<>>, costShown(msg))>>
  ELSE <<>>

\* the Slack calls that relay a sequence of stream events, in emission order
RECURSIVE RelayOfMsgs(_)
RelayOfMsgs(msgs) ==
  IF msgs = <<>> THEN <<>>
  ELSE RelayOfMsg(Head(msgs)) \o RelayOfMsgs(Tail(msgs))

IsRelay(rep) == rep.kind \in {"content", "working", "completed"}

\* the relaying calls among the completed Slack calls, in call order
RelaysIn(reps) == SelectSeq(reps, IsRelay)

IsPrefix(p, q) == Len(p) <= Len(q) /\ SubSeq(q, 1, Len(p)) = p

AllButLast(q) == IF q = <<>> THEN <<>> ELSE SubSeq(q, 1, Len(q) - 1)

RECURSIVE NonBlankTexts(_)
NonBlankTexts(parts) ==
  IF parts = <<>> THEN <<>>
  ELSE (IF Head(parts).type = "text" /\ NonBlank(Head(parts).text)
        THEN <<Head(parts).text>> ELSE <<>>) \o NonBlankTexts(Tail(parts))

\* the content parts of a sequence of stream events, in order
RECURSIVE PartsOf(_)
PartsOf(msgs) ==
  IF msgs = <<>> THEN <<>>
  ELSE (IF Head(msgs).type = "assistant" THEN Head(msgs).content ELSE <<>>)
         \o PartsOf(Tail(msgs))

\* the content parts the relay of call t has reached: every part of the
\* consumed events, up to the part whose Slack call is in flight or failed
ReachedParts(t) ==
  IF partIdx[t] = 0 THEN PartsOf(consumed[t])
  ELSE PartsOf(AllButLast(consumed[t]))
         \o SubSeq(curMsg(t).content, 1, partIdx[t])

IsContent(rep) == rep.kind = "content"

\* the texts of the content messages posted by call t, in order
PostedTexts(t) ==
  [i \in 1..Len(SelectSeq(reports[t], IsContent)) |->
     SelectSeq(reports[t], IsContent)[i].text]

\* slackOps.say for a chunk was called by t and has not returned, or rejected
SayOutstanding(t) ==
  pc[t] = "partSay" \/ caught[t] = "SlackError@partSay"

\* the texts of the chunks call t handed to slackOps.say, in order
ForwardedTexts(t) ==
  PostedTexts(t) \o
    (IF SayOutstanding(t) THEN <<curPart(t).text>> ELSE <<>>)

\* C14: each content chunk whose text is non-blank after trimming is handed
\* to slackOps.say exactly once, as a message of its own, and an empty or
\* whitespace-only chunk is handed to no call: the chunks forwarded are, in
\* order, the non-blank chunks reached, and when no say is in flight or
\* rejected the number of content messages posted is the number of non-blank
\* chunks of the consumed events.
C14_OneMessagePerNonBlankChunk ==
  \A t \in Turns :
    /\ ForwardedTexts(t) = NonBlankTexts(ReachedParts(t))
    /\ (partIdx[t] = 0 /\ ~SayOutstanding(t)) =>
         Len(PostedTexts(t)) = Len(NonBlankTexts(PartsOf(consumed[t])))

\* C14 witness: a turn consumed a non-blank chunk and a whitespace-only
\* chunk and posted one content message
C14_Witness ==
  \E t \in Turns :
    /\ pc[t] = "pull"
    /\ consumed[t] = << AssistantMsg(<<TextPart(<<"h", "i">>)>>),
                        AssistantMsg(<<TextPart(<<" ">>)>>) >>
    /\ PostedTexts(t) = << <<"h", "i">> >>

\* the requests made by the stream of call t that were denied
DeniedOf(t) ==
  {r \in Requests : requests[r].turn = t /\ requests[r].result = "deny"}

\* C15: a deny is not a fault: the step in which request() returns deny to
\* the stream of a turn leaves that turn in its loop, ready to pull, with no
\* error caught or raised and nothing reported; what the stream yields
\* afterwards is relayed as for any turn, and a turn never holds a caught
\* error that a deny produced.
C15_DenyIsNotAFault ==
  /\ [][\A r \in Requests :
          (/\ requests[r].turn \in Turns
           /\ requests[r].result = "none"
           /\ requests'[r].result = "deny") =>
            LET t == requests[r].turn
            IN /\ pc'[t] = "pull"
               /\ ~awaitingCanUseTool(perm'[t])
               /\ caught'[t] = NoError
               /\ raised'[t] = NoError
               /\ reports'[t] = reports[t]]_vars
  /\ [](\A t \in Turns :
          DeniedOf(t) # {} =>
            /\ IsPrefix(RelaysIn(reports[t]), RelayOfMsgs(consumed[t]))
            /\ caught[t] = "AnnounceError" =>
                 \E r \in Requests :
                   requests[r].turn = t /\ requests[r].result = "threw")

\* C15 witness: a turn whose Bash request was denied relayed the result
\* event that followed and returned normally
C15_Witness ==
  \E t \in Turns :
    /\ DeniedOf(t) # {}
    /\ pc[t] = "completed"
    /\ raised[t] = NoError
    /\ ~FailureReported(t)
    /\ RelaysIn(reports[t]) =
         << Report("updateMessage", "completed", <<>>, 5) >>

IsResult(msg) == msg.type = "result"
IsCompleted(rep) == rep.kind = "completed"

\* the cost a completed status shows for a result event that carries one
CostCarried(msg) ==
  IF msg.has_cost THEN msg.total_cost_usd ELSE NoCostSuffix

\* C16: for every result event a turn consumed a completed status is
\* reported on the status message (once its updateMessage call has
\* returned), and the status shows the cost of every result event that
\* carries one, a cost of zero included.
C16_CompletedStatusShowsCost ==
  \A t \in Turns :
    LET results == SelectSeq(consumed[t], IsResult)
        completed == SelectSeq(reports[t], IsCompleted)
    IN /\ (pc[t] # "resultUpdate" /\ caught[t] # "SlackError@resultUpdate")
            => Len(completed) = Len(results)
       /\ \A i \in 1..Len(completed) :
            i <= Len(results) /\ completed[i].cost = CostCarried(results[i])

\* the step hands a stream event to the loop of call t: an upstream message
\* was pulled and it was not a permission request
YieldStep(t) ==
  npulled'[t] = npulled[t] + 1 /\ Len(requests') = Len(requests)

\* errors that can still end a cancelled turn: the stream or the permission
\* hook throwing, and a Slack call for the event in progress rejecting
ErrorsAfterAbort ==
  {"StreamError", "AnnounceError", "SlackError@partSay",
   "SlackError@partUpdate", "SlackError@resultUpdate"}

Unsettled(t) ==
  /\ perm[t] \in Requests
  /\ promise[requests[perm[t]].approvalId] = "pending"

\* C18: while the request() a turn's stream waits on is unsettled, the turn
\* pulls and consumes nothing, reports nothing and stays where it is, short
\* of any final state, whether or not its AbortController is aborted; and a
\* pending promise is settled only by a handler call made from announce's
\* return, announce's failure or resolve: there is no timeout.
C18_UnsettledRequestBlocksTurn ==
  /\ [][\A t \in Turns :
          Unsettled(t) =>
            /\ consumed'[t] = consumed[t]
            /\ npulled'[t] = npulled[t]
            /\ reports'[t] = reports[t]
            /\ pc'[t] = pc[t]]_vars
  /\ [](\A t \in Turns : Unsettled(t) => pc[t] = "pull" /\ ~Ended(t))
  /\ [][\A id \in IssuedIds :
          (promise[id] = "pending" /\ promise'[id] # "pending") =>
            /\ Len(settlements'[id]) = Len(settlements[id]) + 1
            /\ settlements'[id][Len(settlements'[id])].source
                 \in {"announce", "catch", "resolve"}
            /\ promise'[id] =
                 settlements'[id][Len(settlements'[id])].approved]_vars

\* C18 witness: a turn that was aborted while its Bash request is pending
\* is still waiting in its loop, with nothing consumed
C18_Witness ==
  \E t \in Turns :
    /\ Unsettled(t)
    /\ aborted[t]
    /\ requests[perm[t]].tool = <<"B", "a", "s", "h">>
    /\ pc[t] = "pull"
    /\ consumed[t] = <<>>

\* C19: when postPermissionRequest throws or rejects, the request() that
\* called it resolves to deny: its promise is settled with false, its id has
\* left the pending table, and request() does not throw.
C19_AnnounceFailureDenies ==
  \A r \in Requests :
    requests[r].announce \in {"threw", "threwSync"} =>
      /\ promise[requests[r].approvalId] = "false"
      /\ requests[r].approvalId \notin pending
      /\ requests[r].result \in {"none", "deny"}

\* C20: a postPermissionRequest that returns undefined settles nothing: no
\* handler call carries undefined, so the id stays pending until resolve is
\* called and the value given to resolve decides between allow and deny.
C20_UndefinedReturnSettlesNothing ==
  \A id \in IssuedIds :
    \A i \in 1..Len(settlements[id]) :
      settlements[id][i].source = "announce" =>
        settlements[id][i].approved \in {"true", "false"}

\* what the gate holds for approval id: its pending entry, the state of its
\* promise and the handler calls made for it
ApprovalOf(pend, prom, setl, id) ==
  [isPending |-> id \in pend, decision |-> prom[id], calls |-> setl[id]]

\* the step is a resolve(id, .) call that found a handler: the only step of
\* the gate that calls a handler and leaves the log of requests as it is
ResolveStep(id) ==
  /\ requests' = requests
  /\ settlements'[id] # settlements[id]

\* C21: a resolve(id, .) call changes nothing of any approval other than id:
\* neither its pending entry nor the decision delivered for it; a resolve
\* that throws changes nothing at all, so every step that changes the
\* pending table without a request or an announce callback removes exactly
\* the one id it was called with, and that id was pending.
C21_ResolveTouchesOnlyItsId ==
  /\ [][\A id \in IssuedIds :
          ResolveStep(id) =>
            /\ id \in pending
            /\ pending' = pending \ {id}
            /\ \A other \in IssuedIds \ {id} :
                 ApprovalOf(pending', promise', settlements', other) =
                   ApprovalOf(pending, promise, settlements, other)]_vars
  /\ [][(requests' = requests /\ settlements' = settlements) =>
          (pending' = pending /\ promise' = promise)]_vars

\* C21 witness: resolve(1, true) settled the first approval while the second
\* one is still pending and undecided
C21_Witness ==
  /\ nextId = 3
  /\ settlements[1] = <<[source |-> "resolve", approved |-> "true"]>>
  /\ promise[1] = "true"
  /\ 2 \in pending
  /\ promise[2] = "pending"
  /\ settlements[2] = <<>>

\* C22: first settlement wins: for every approval id at most one handler call
\* is ever made, it is made while the id is pending and removes it, the
\* promise takes the value of that call and never changes afterwards, and
\* what request() has returned never changes; announce's return, announce's
\* failure and resolve calls that come later change nothing.
C22_FirstSettlementWins ==
  /\ [](\A id \in IssuedIds :
          /\ Len(settlements[id]) <= 1
          /\ settlements[id] # <<>> => id \notin pending
          /\ promise[id] \in {"true", "false", "undefined"} =>
               /\ settlements[id] # <<>>
               /\ promise[id] = settlements[id][1].approved)
  /\ [][\A id \in IssuedIds :
          /\ promise[id] # "pending" => promise'[id] = promise[id]
          /\ settlements[id] # <<>> => settlements'[id] = settlements[id]]_vars
  /\ [][\A r \in Requests :
          requests[r].result # "none" =>
            requests'[r].result = requests[r].result]_vars

\* C22 witness: resolve(id, true) came first and announce returned false
\* afterwards; the request was allowed
C22_Witness ==
  \E r \in Requests :
    /\ requests[r].announce = "returned"
    /\ requests[r].result = "allow"
    /\ settlements[requests[r].approvalId] =
         <<[source |-> "resolve", approved |-> "true"]>>

\* the fields of a session row that say whose it is and when it was created
Identity(row) ==
  <<row.session_key, row.user_id, row.channel_id, row.thread_ts,
    row.created_at>>

\* the keys that have a row
KeysIn(rows) == {r.session_key : r \in rows}

\* C23: the sessions table never holds two rows with one key; an upsert for
\* a key without a row adds one row, created at the time of the call, and
\* an upsert for a key with a row keeps that row's user id, channel id,
\* thread id and creation time whatever the call passes, changing at most
\* the token, working directory, active flag and last-activity time; rows
\* of other keys are left as they are and no row disappears.
C23_OneRowPerKeyIdentityKept ==
  /\ [](\A r1, r2 \in sessions :
          r1.session_key = r2.session_key => r1 = r2)
  /\ [][/\ \A r \in sessions :
             \E q \in sessions' : Identity(q) = Identity(r)
        /\ \A q \in sessions' :
             q.session_key \notin KeysIn(sessions) =>
               /\ q.created_at = now'
               /\ KeysIn(sessions') = KeysIn(sessions) \cup {q.session_key}
        /\ Cardinality(sessions' \ sessions) <= 1
        /\ \E q \in sessions' : q.last_activity_at = now']_vars

\* C23 witness: a row created at time 0 for user U1 was upserted again at
\* time 1 and holds the later token, while its owner and creation time are
\* those of the first upsert, next to a row of another key
C23_Witness ==
  \E r \in sessions :
    /\ r.session_key = sessionKey(U1, D1, Undefined)
    /\ r.user_id = U1
    /\ r.created_at = 0
    /\ r.last_activity_at = 1
    /\ r.claude_session_id = S2
    /\ Cardinality(sessions) = 2

HasDash(str) == \E i \in 1..Len(str) : str[i] = "-"

\* a key has been derived for call t
Keyed(t) == event[t] # NoMessage

\* the triple is made of ids as Slack issues them: no dash in the user id
\* and the channel id, and a thread id that is not the word 'direct'
SlackShaped(e) ==
  /\ ~HasDash(e.userId)
  /\ ~HasDash(e.channelId)
  /\ e.threadTs # <<"d", "i", "r", "e", "c", "t">>

\* C24 as stated: sessionKey is a function of the triple and is injective on
\* all strings: different triples never share a key, and a triple without a
\* thread never shares a key with a triple that has one.
C24_KeyInjectiveOnAllStrings ==
  \A t, u \in Turns :
    (Keyed(t) /\ Keyed(u)) =>
      /\ event[t] = event[u] => key[t] = key[u]
      /\ event[t] # event[u] => key[t] # key[u]

\* C24 amended: sessionKey is a function of the triple, and it is injective
\* on triples whose user id and channel id hold no dash and whose thread id
\* is not the word 'direct'; on such triples a triple without a thread never
\* shares a key with a triple that has one.
C24_KeyInjectiveOnSlackIds ==
  \A t, u \in Turns :
    (Keyed(t) /\ Keyed(u)) =>
      /\ event[t] = event[u] => key[t] = key[u]
      /\ (SlackShaped(event[t]) /\ SlackShaped(event[u])
            /\ event[t] # event[u]) => key[t] # key[u]

\* C24 witness: a user's DM outside any thread and the same DM inside a
\* thread whose id holds a dash have different keys
C24_Witness ==
  /\ event[1] = [userId |-> <<"U">>, channelId |-> <<"D">>,
                 threadTs |-> Undefined]
  /\ event[2] = [userId |-> <<"U">>, channelId |-> <<"D">>,
                 threadTs |-> <<"t", "-", "1">>]
  /\ key[1] # key[2]
  /\ key[1] = <<"U", "-", "D", "-", "d", "i", "r", "e", "c", "t">>

\* the rows stored for a channel and a thread, by the fields of the row
RowsFor(channelId, threadTs) ==
  {r \in workingDirs : r.channel_id = channelId /\ r.thread_ts = threadTs}

\* the result the lookup is to give: the row of the thread when the message
\* is in a thread that has one, else the row of the channel, else nothing
ExpectedDir(channelId, threadTs) ==
  IF threadTs # Undefined /\ RowsFor(channelId, threadTs) # {}
  THEN RowsFor(channelId, threadTs)
  ELSE RowsFor(channelId, Null)

\* the (channel, thread) pairs a message can come from
Places == (DirChannels \cup {D1}) \X (DirThreads \cup {Undefined})

\* the step stores a directory for thread th of channel c
OverrideStep(c, th) ==
  \E r \in workingDirs' \ workingDirs : r.channel_id = c /\ r.thread_ts = th

\* C25: findForMessage returns the directory stored for the thread of the
\* channel when there is one, otherwise the directory stored for the
\* channel when there is one, otherwise null; and storing a directory for a
\* thread changes the result for no other thread and not for the channel.
C25_ThreadThenChannelThenNull ==
  /\ [](\A p \in Places :
          findForMessage(workingDirs, p[1], p[2]) = ExpectedDir(p[1], p[2]))
  /\ [][\A c \in DirChannels, th \in DirThreads :
          OverrideStep(c, th) =>
            \A p \in Places \ {<<c, th>>} :
              findForMessage(workingDirs', p[1], p[2]) =
                findForMessage(workingDirs, p[1], p[2])]_vars

\* C25 witness: channel C2 has a default and an override for thread t1: a
\* message in t1 gets the override, one in t2 and one outside any thread get
\* the default, and channel C3 has nothing
C25_Witness ==
  /\ \E r \in findForMessage(workingDirs, C2, Thread1) :
       r.directory = DirQ /\ r.thread_ts = Thread1
  /\ \E r \in findForMessage(workingDirs, C2, Thread2) :
       r.directory = DirP /\ r.thread_ts = Null
  /\ \E r \in findForMessage(workingDirs, C2, Undefined) :
       r.directory = DirP
  /\ findForMessage(workingDirs, C3, Thread1) = {}

\* the directory stored for the place the message of call t came from
StoredDirs(t) ==
  {r.directory : r \in ExpectedDir(event[t].channelId, event[t].threadTs)}

\* C26: a working directory stored for a channel by the cwd command is the
\* working directory passed to claudeQuery by the later process() calls for
\* that channel, in direct-message channels as in the others.
C26_StoredDirIsPassedAsCwd ==
  \A t \in Turns :
    \A q \in streamReq[t] : \A d \in StoredDirs(t) : q.cwd = d

\* the same for the channels that are not direct messages
C26_StoredDirIsPassedOutsideDMs ==
  \A t \in Turns :
    ~isDM(event[t].channelId) =>
      \A q \in streamReq[t] : StoredDirs(t) = {q.cwd}

\* C27: an approval registered by the request() of a process() call is in
\* the pending table that the approve_tool / deny_tool handlers resolve
\* against, so that a click carrying a pending id settles that request
\* instead of raising 'No pending approval'.
C27_PendingIsInHandlersTable ==
  \A id \in pending : ~resolveThrows(handlersPending, id)

\* under the handlers' wiring no request is ever settled by a click
C27_NoClickEverSettles ==
  \A id \in DOMAIN settlements :
    \A i \in 1..Len(settlements[id]) :
      settlements[id][i].source # "resolve"

\* a stream message the loop body has no branch for
UnknownKind(msg) ==
  /\ ~(msg.type = "system" /\ msg.subtype = "init")
  /\ msg.type \notin {"assistant", "result"}

\* call t consumes a message of unknown kind in this step
ConsumesUnknown(t) ==
  /\ Len(consumed'[t]) = Len(consumed[t]) + 1
  /\ UnknownKind(consumed'[t][Len(consumed'[t])])

\* C28: a stream message that is neither the init message, an assistant
\* message nor a result message is a no-op: consuming it makes no Slack
\* call, writes nothing to the session store, raises no error, and the
\* loop goes on to pull the next message.
C28_UnknownKindIsNoOp ==
  [][\A t \in Turns :
       ConsumesUnknown(t) =>
         /\ reports' = reports
         /\ sessions' = sessions
         /\ persisted' = persisted
         /\ caught' = caught
         /\ raised' = raised
         /\ pc'[t] = "pull"]_vars

\* C28 witness: the call consumed a system message that is not the init
\* message, went on to the result message and completed with the reports
\* of a turn that had the result message alone
C28_Witness ==
  /\ pc[1] = "completed"
  /\ Len(consumed[1]) = 2
  /\ consumed[1][1].type = "system"
  /\ UnknownKind(consumed[1][1])
  /\ consumed[1][2].type = "result"
  /\ persisted[1] = <<>>
  /\ Len(reports[1]) = 5

\* the rejections of slackOps.say and slackOps.updateMessage, by call site
SlackErrors ==
  {"SlackError@guardSay", "SlackError@sayThinking", "SlackError@partSay",
   "SlackError@partUpdate", "SlackError@resultUpdate",
   "SlackError@catchUpdate"}

\* C29: a failure of a Slack call made during process() (posting a
\* message, updating the status, adding or removing a reaction) does not
\* change the outcome of the call: it never enters the catch block, where
\* it would end the loop and be reported as a failure of the stream, and it
\* never leaves process().
C29_ReporterFailureChangesNothing ==
  \A t \in Turns : caught[t] \notin SlackErrors /\ raised[t] \notin SlackErrors

\* the positions of the 'Completed' status among the Slack calls of call t
CompletedAt(t) == {i \in 1..Len(reports[t]) : IsCompleted(reports[t][i])}

\* C30: a process() call ends in exactly one of completed, blocked and
\* failed; once it has consumed a result message it handles no later
\* message of the stream, and it reports the completed status exactly once.
C30_ResultIsLastAndReportedOnce ==
  \A t \in Turns :
    /\ \A i \in 1..Len(consumed[t]) :
         IsResult(consumed[t][i]) => i = Len(consumed[t])
    /\ Cardinality(CompletedAt(t)) <= 1
    /\ pc[t] = "completed" /\ (\E i \in 1..Len(consumed[t]) :
                                 IsResult(consumed[t][i]))
         => Cardinality(CompletedAt(t)) = 1

\* a call that ended did so in one way: it returned after the guard's
\* message, returned after the stream, or threw
C30_EndsInOneWay ==
  \A t \in Turns :
    /\ pc[t] = "blocked" => raised[t] = NoError /\ consumed[t] = <<>>
    /\ pc[t] = "completed" => raised[t] = NoError /\ caught[t] = NoError
    /\ pc[t] = "raised" => raised[t] # NoError

\* the approval ids whose promise nobody has settled yet
UnsettledIds == {id \in IssuedIds : promise[id] = "pending"}

\* C31: the pending table holds exactly the approval ids of the request()
\* calls that are still unsettled: an id leaves the table at its first
\* settlement, and once request() has returned or thrown its id is not in
\* the table, so that no later resolve() finds a stale entry.
C31_PendingIsExactlyUnsettled ==
  /\ pending = UnsettledIds
  /\ \A r \in 1..Len(requests) :
       requests[r].result # "none" => requests[r].approvalId \notin pending

\* the same for the requests whose postPermissionRequest returned a promise
C31_PendingExactWhenAnnounceReturnsPromise ==
  /\ \A id \in IssuedIds :
       (\A r \in 1..Len(requests) :
          requests[r].approvalId = id => requests[r].announce # "threwSync")
       => (id \in pending <=> promise[id] = "pending")
  /\ pending \subseteq IssuedIds

\* the approval ids of the requests made so far
IdsOf(reqs) == {reqs[r].approvalId : r \in 1..Len(reqs)} \ {0}

\* this step is a request() call for a tool that needs approval
AsksApproval ==
  /\ Len(requests') = Len(requests) + 1
  /\ requests'[Len(requests')].approvalId # 0

\* C32: for a tool that needs approval, request() registers the pending
\* entry under a fresh approval id, distinct from every id issued before,
\* before it calls postPermissionRequest with that id, and it calls
\* postPermissionRequest exactly once; a resolve(id, .) that arrives after
\* that call started and before any other settlement finds the entry.
C32_FreshIdRegisteredBeforeAnnounce ==
  /\ [][AsksApproval =>
          LET req == requests'[Len(requests')]
          IN /\ req.approvalId \notin IdsOf(requests)
             /\ req.approvalId \notin pending
             /\ req.announce \in {"inflight", "threwSync"}
             /\ req.approvalId \in pending']_vars
  /\ [](\A r, q \in 1..Len(requests) :
          requests[r].approvalId # 0 /\
          requests[r].approvalId = requests[q].approvalId => r = q)
  /\ [][\A r \in 1..Len(requests) :
          requests[r].announce # "inflight" =>
            requests'[r].announce = requests[r].announce]_vars
  /\ [](\A id \in IdsOf(requests) :
          settlements[id] = <<>> => id \in pending)

\* C32 witness: two requests got the ids 1 and 2, the call of
\* postPermissionRequest for id 1 has not returned, and a resolve(1, true)
\* that arrived meanwhile found the entry and was its first settlement
C32_Witness ==
  /\ Len(requests) = 2
  /\ requests[1].approvalId = 1 /\ requests[2].approvalId = 2
  /\ requests[1].announce = "inflight"
  /\ settlements[1] = <<[source |-> "resolve", approved |-> "true"]>>
  /\ promise[1] = "true"
  /\ 2 \in pending

\* the tokens that init messages reported to the process() calls for key k
ReportedFor(k) ==
  UNION {{persisted[t][i] : i \in 1..Len(persisted[t])} :
           t \in {u \in Turns : key[u] = k}}

\* C33: a token stored for a session key that is not null is a token that
\* an init message reported to some process() call for that same key; the
\* upsert at the start of a call, the guard and the catch block bring in no
\* token and copy none from another key.
C33_StoredTokenCameFromInitOfKey ==
  \A row \in sessions :
    row.claude_session_id # Null =>
      row.claude_session_id \in ReportedFor(row.session_key)

\* C33 witness: the two calls have different keys, each stored the token
\* its own init message reported, and the second call got past its upsert
\* while the first key's token was already stored
C33_Witness ==
  /\ key[1] # key[2]
  /\ persisted[1] = <<S1>> /\ persisted[2] = <<S2>>
  /\ \E row \in sessions :
       row.session_key = key[1] /\ row.claude_session_id = S1
  /\ \E row \in sessions :
       row.session_key = key[2] /\ row.claude_session_id = S2
  /\ pc[1] = "completed"

\* the requests whose permission prompt has been posted
PostedPrompts ==
  {r \in 1..Len(requests) : requests[r].announce = "returned"}

\* C34: with the postPermissionRequest of buildSlackOps, an approval whose
\* prompt has been posted stays pending until a click, and its decision is
\* the one the approve_tool / deny_tool action delivers: Allow makes
\* request() return allow, Deny makes it return deny.
C34_PostedPromptWaitsForClick ==
  \A r \in PostedPrompts :
    LET id == requests[r].approvalId
    IN \/ id \in pending /\ promise[id] = "pending"
       \/ /\ settlements[id] # <<>>
          /\ settlements[id][1].source = "resolve"
          /\ promise[id] = settlements[id][1].approved

\* with that postPermissionRequest every request for a tool that needs
\* approval ends as deny or is still waiting for the post
C34_NoApprovalIsEverGranted ==
  \A r \in 1..Len(requests) :
    requests[r].approvalId # 0 => requests[r].result \in {"none", "deny"}

\* how many times call t made the reaction call op with the name kind
Reactions(t, op, kind) ==
  Cardinality({i \in 1..Len(reports[t]) :
                 reports[t][i].op = op /\ reports[t][i].kind = kind})

\* call t got past the working-directory guard
PassedGuard(t) == key[t] # <<>>

\* C35: every process() call that passes the guard and ends has the
\* 'thinking_face' reaction removed and gets exactly one final reaction:
\* 'white_check_mark' when process() returns, 'x' when it throws; never
\* both.
C35_OneFinalMarker ==
  \A t \in Turns :
    PassedGuard(t) /\ pc[t] \in {"completed", "raised"} =>
      /\ Reactions(t, "removeReaction", "thinking_face") = 1
      /\ Reactions(t, "addReaction", "white_check_mark") =
           (IF pc[t] = "completed" THEN 1 ELSE 0)
      /\ Reactions(t, "addReaction", "x") =
           (IF pc[t] = "raised" THEN 1 ELSE 0)

\* the two final reactions are never both added, a call that returns has
\* the check mark, and a call that throws has no check mark
C35_NeverBothMarkers ==
  \A t \in Turns :
    /\ Reactions(t, "addReaction", "white_check_mark")
         + Reactions(t, "addReaction", "x") <= 1
    /\ pc[t] = "completed" =>
         /\ Reactions(t, "addReaction", "white_check_mark") = 1
         /\ Reactions(t, "removeReaction", "thinking_face") = 1
    /\ pc[t] = "raised" =>
         Reactions(t, "addReaction", "white_check_mark") = 0

\* the texts the status message of call t has shown, in order
StatusKinds == {"thinking", "working", "completed", "error"}
StatusAt(t) == {i \in 1..Len(reports[t]) : reports[t][i].kind \in StatusKinds}

\* the stream of call t threw and the call has ended
StreamThrewAndEnded(t) == caught[t] = "StreamError" /\ pc[t] = "raised"

\* C36: in a process() call whose stream throws, no 'Completed' status is
\* ever reported, and the last status shown on the status message is the
\* failure status.
C36_ThrowingStreamNeverCompleted ==
  \A t \in Turns :
    StreamThrewAndEnded(t) =>
      /\ CompletedAt(t) = {}
      /\ \E i \in StatusAt(t) :
           /\ reports[t][i].kind = "error"
           /\ \A j \in StatusAt(t) : j <= i

\* the same for the streams that throw before they yield a result message,
\* when the failure update is delivered
C36_ThrowBeforeResultNeverCompleted ==
  \A t \in Turns :
    /\ StreamThrewAndEnded(t)
    /\ \A i \in 1..Len(consumed[t]) : ~IsResult(consumed[t][i])
    /\ raised[t] = "StreamError"
    => /\ CompletedAt(t) = {}
       /\ \E i \in StatusAt(t) :
            /\ reports[t][i].kind = "error"
            /\ \A j \in StatusAt(t) : j <= i

\* the row as it is apart from the token and the last-activity time
ApartFromToken(row) ==
  <<row.session_key, row.user_id, row.channel_id, row.thread_ts,
    row.working_directory, row.is_active, row.created_at>>

HookCalls(t, reqs) == {r \in 1..Len(reqs) : reqs[r].turn = t}

StreamNeverThrows(t) == [](caught[t] # "StreamError")

\* C39: under fairness, a process() call whose stream is finite and does
\* not throw, and whose permission requests are all settled in the end,
\* eventually ends completed or blocked, and process() returns.
C39_TurnEventuallyReturns ==
  StreamNeverThrows(1) => <>(pc[1] \in {"completed", "blocked"})

\* under the same fairness every process() call ends: it returns or throws
C39_TurnEventuallyEnds ==
  <>(pc[1] \in {"completed", "blocked", "raised"})

\* the requests whose postPermissionRequest rejected after a resolve() call
\* from outside had settled the approval
LateFailures ==
  {r \in 1..Len(requests) :
     /\ requests[r].announce = "threw"
     /\ settlements[requests[r].approvalId] # <<>>
     /\ settlements[requests[r].approvalId][1].source = "resolve"}

\* C40: when postPermissionRequest fails after its approval was settled by
\* a resolve() call from outside, the earlier decision stands and the late
\* failure is absorbed inside the gate: it causes no exception and no
\* unhandled rejection.
C40_LateAnnounceFailureAbsorbed ==
  /\ unhandled = 0
  /\ \A r \in LateFailures :
       promise[requests[r].approvalId] =
         settlements[requests[r].approvalId][1].approved

\* the earlier decision does stand, and the failure settles nothing
C40_EarlierDecisionStands ==
  \A r \in LateFailures :
    /\ promise[requests[r].approvalId] =
         settlements[requests[r].approvalId][1].approved
    /\ Len(settlements[requests[r].approvalId]) = 1
    /\ unhandled >= 1

====
